---- MODULE Spec2Model ----
(***************************************************************************)
(* State-machine model of CAPMBot (src/CAPMBot.py): the mean-variance      *)
(* performance model, the two trade searches, the order validator and the  *)
(* single-order lifecycle driven by order-book events, holdings updates,   *)
(* order outcomes and the two periodic ticks.                              *)
(*                                                                         *)
(* Numbers.  The program computes in Python floats; the model computes the *)
(* same quantities exactly, as integer numerators over a fixed             *)
(* denominator:                                                            *)
(*   expected return of s   = ERnum[s]      / (100 * n)                    *)
(*   covariance of (s1,s2)  = CovNum[s1,s2] / (100 * 100 * n^3)            *)
(*   performance            = PerfNum       / (RiskPenaltyDen * 10^4 * n^3)*)
(* where n is the number of payoff states.  Python dicts are modelled with *)
(* their insertion order (a key sequence and a value function).            *)
(***************************************************************************)
EXTENDS Integers, Sequences, FiniteSets, TLC

VARIABLES
    _payoffs,                \* security -> sequence of payoffs in cents
    _current_performance,    \* None, or <<PerfNum>>
    _cash_holdings,          \* None, or <<cents>>
    _asset_holdings,         \* security -> units held (empty before the first update)
    _short_asset_holdings,   \* security -> units available to sell
    _asset_expected_returns, \* None, or <<ERnum function>>
    _asset_variance_covariance_matrix, \* None, or <<CovNum function>>
    _most_enhancing_trade,   \* None, or <<order>>
    _current_wait_time,
    _order_on_market,
    book,                    \* Order.current(): the open orders of the venue
    inflight,                \* send_order requests the venue has not yet answered
    next_id,                 \* id the venue client gives the next order the bot creates
    sent,                    \* requests passed to send_order by the last handler run
    event,                   \* the order-book event of the last handler run, if it had one
    search,                  \* the search of the last handler run, if it ran one
    checked,                 \* the last validation or evaluation called on its own, and the answer
    initialize_calls         \* calls of _initialize_asset_properties so far

vars == <<_payoffs, _current_performance, _cash_holdings, _asset_holdings,
          _short_asset_holdings, _asset_expected_returns,
          _asset_variance_covariance_matrix, _most_enhancing_trade,
          _current_wait_time, _order_on_market, book, inflight, next_id,
          sent, event, search, checked, initialize_calls>>

botVars == <<_payoffs, _current_performance, _cash_holdings, _asset_holdings,
             _short_asset_holdings, _asset_expected_returns,
             _asset_variance_covariance_matrix, _most_enhancing_trade,
             _current_wait_time, _order_on_market>>

portfolioVars == <<_cash_holdings, _asset_holdings, _short_asset_holdings>>

(***************************************************************************)
(* Program constants                                                       *)
(***************************************************************************)
None == <<>>

Some(v) == <<v>>

RiskPenaltyNum == 1

RiskPenaltyDen == 1000

CentsPerDollar == 100

\* session_time, the constructor's argument (minutes): the model runs a
\* short session, which keeps the wait counter small
SessionTime == 4

\* line 310
MaxWaitTime == (SessionTime * 60) \div 200

(***************************************************************************)
(* The session's markets (self.markets): two securities with the venue's   *)
(* price bounds and price tick.                                            *)
(***************************************************************************)
Markets == <<"A", "B">>

Securities == {Markets[i] : i \in 1..Len(Markets)}

MinPrice == 10

MaxPrice == 200

PriceTick == 10

min_price == [s \in Securities |-> MinPrice]

max_price == [s \in Securities |-> MaxPrice]

price_tick == [s \in Securities |-> PriceTick]

(***************************************************************************)
(* Bounds of the model                                                     *)
(***************************************************************************)
MaxBook == 2        \* orders of other participants open at once (search runs)

MaxOthers == 1      \* orders of other participants open at once (lifecycle runs)

MaxOrders == 2      \* orders the bot creates in one run

MaxTicks == 2       \* value up to which the wait counter is followed

MaxUnits == 2       \* unit count of a candidate handed to the validator alone

MaxInitializations == 2   \* calls of _initialize_asset_properties followed

\* the one element of a singleton: a value computed once and then named
Only(S) == CHOOSE x \in S : TRUE

(***************************************************************************)
(* Python dict with insertion order                                        *)
(***************************************************************************)
EmptyDict == [keys |-> <<>>, val |-> <<>>]

DictHas(d, k) == k \in DOMAIN d.val

DictSet(d, k, v) ==
    [keys |-> IF DictHas(d, k) THEN d.keys ELSE Append(d.keys, k),
     val  |-> [x \in (DOMAIN d.val) \cup {k} |-> IF x = k THEN v ELSE d.val[x]]]

RECURSIVE SumSeq(_)
SumSeq(s) == IF s = <<>> THEN 0 ELSE Head(s) + SumSeq(Tail(s))

RECURSIVE SumOver(_, _)
SumOver(S, f) ==
    IF S = {} THEN 0
    ELSE LET x == CHOOSE y \in S : TRUE IN f[x] + SumOver(S \ {x}, f)

(***************************************************************************)
(* PayoffModel: _initialize_asset_properties                               *)
(***************************************************************************)
StateNum(p) == Len(p[Markets[1]])

\* line 369: the division by len(payoff_dist), ZeroDivisionError for an
\* empty payoff list
ExpectedReturnRaises(p) == \E s \in Securities : Len(p[s]) = 0

SharedStateCount(p, first_security, second_security) ==
    IF Len(p[first_security]) <= Len(p[second_security])
    THEN Len(p[first_security])
    ELSE Len(p[second_security])

\* lines 379, 382: the states of an entry are those of its first security
StateCount(p, first_security, second_security) == Len(p[first_security])

\* line 384: second_security_payoff[state], IndexError past its end
MatrixEntryRaises(p, first_security, second_security) ==
    \E state \in 1..StateCount(p, first_security, second_security) :
        state \notin DOMAIN p[second_security]

\* _initialize_asset_properties raises before it reaches lines 390-391
initialize_raises(p) ==
    \/ ExpectedReturnRaises(p)
    \/ \E s1, s2 \in Securities : MatrixEntryRaises(p, s1, s2)

\* expected_return[s], as a numerator over 100 * n
expected_return(p) == [s \in Securities |-> SumSeq(p[s])]

SquaredFirstDiff(p, first_security, second_security, state) ==
    LET n == Len(p[first_security])
    IN  (n * p[first_security][state] - SumSeq(p[first_security]))
        * (n * p[first_security][state] - SumSeq(p[first_security]))

RawProduct(p, first_security, second_security, state) ==
    LET n == Len(p[first_security])
    IN  (n * p[first_security][state]) * (n * p[second_security][state])

\* one term of curr_matrix, as a numerator over 100 * 100 * n^3
DiffProduct(p, first_security, second_security, state) ==
    LET n == Len(p[first_security])
    IN  (n * p[first_security][state] - expected_return(p)[first_security])
        * (n * p[second_security][state] - expected_return(p)[second_security])

RECURSIVE CurrMatrix(_, _, _, _)
CurrMatrix(p, first_security, second_security, state) ==
    IF state = 0 THEN 0
    ELSE CurrMatrix(p, first_security, second_security, state - 1)
         + DiffProduct(p, first_security, second_security, state)

variance_covariance_matrix(p) ==
    [k \in Securities \X Securities |->
        CurrMatrix(p, k[1], k[2], StateCount(p, k[1], k[2]))]

(***************************************************************************)
(* PerformanceEvaluator: get_potential_performance                         *)
(***************************************************************************)
RECURSIVE HypotheticalHoldings(_, _)
HypotheticalHoldings(holdings, orders) ==
    IF orders = <<>> THEN holdings
    ELSE LET order == Head(orders)
             delta == IF order.order_side = "SELL" THEN -1 ELSE 1
         IN  HypotheticalHoldings(
                 [holdings EXCEPT ![order.ref] = @ + delta], Tail(orders))

RECURSIVE HypotheticalCash(_, _)
HypotheticalCash(cash, orders) ==
    IF orders = <<>> THEN cash
    ELSE LET order == Head(orders)
         IN  HypotheticalCash(
                 IF order.order_side = "SELL" THEN cash + order.price
                                              ELSE cash - order.price,
                 Tail(orders))

\* PerfNum: the performance as a numerator over RiskPenaltyDen * 10^4 * n^3
Performance(n, cash, holdings, er, cov, orders) ==
    LET curr_asset_holdings == HypotheticalHoldings(holdings, orders)
        held == DOMAIN curr_asset_holdings
        cash_part == HypotheticalCash(cash, orders)
                     * RiskPenaltyDen * CentsPerDollar * n * n * n
        return_part == SumOver(held,
                         [s \in held |-> er[s] * curr_asset_holdings[s]])
                       * RiskPenaltyDen * CentsPerDollar * n * n
        payoff_variance ==
            SumOver(held \X held,
                [k \in held \X held |->
                    curr_asset_holdings[k[1]] * curr_asset_holdings[k[2]] * cov[k]])
    IN  cash_part + return_part - RiskPenaltyNum * payoff_variance

get_potential_performance(orders) ==
    Performance(StateNum(_payoffs), _cash_holdings[1], _asset_holdings,
                _asset_expected_returns[1],
                _asset_variance_covariance_matrix[1], orders)

EvaluatedInPlace(orders) == HypotheticalHoldings(_asset_holdings, orders)

\* line 77: the hypothetical trades are applied to a copy, so the field
\* self._asset_holdings is after the call what it was before
HoldingsAfterEvaluation(orders) == _asset_holdings

(***************************************************************************)
(* OrderValidator: _check_order_validity                                   *)
(***************************************************************************)
AboveCeiling(order) == order.price > max_price[order.ref]

BelowFloor(order) == order.price < min_price[order.ref]

NotEnoughCash(order) == order.price > _cash_holdings[1]

NotEnoughSecurities(order) == order.units > _short_asset_holdings[order.ref]

AlwaysValid(order) == TRUE

NoCeilingCheck(order) ==
    IF BelowFloor(order) THEN FALSE
    ELSE IF order.order_side = "BUY" /\ NotEnoughCash(order) THEN FALSE
    ELSE IF order.order_side = "SELL" /\ NotEnoughSecurities(order) THEN FALSE
    ELSE TRUE

check_order_validity(order) ==
    IF AboveCeiling(order) THEN FALSE
    ELSE IF BelowFloor(order) THEN FALSE
    ELSE IF order.order_side = "BUY" /\ NotEnoughCash(order) THEN FALSE
    ELSE IF order.order_side = "SELL" /\ NotEnoughSecurities(order) THEN FALSE
    ELSE TRUE

(***************************************************************************)
(* MarketSnapshot: the scan of Order.current() both searches start with    *)
(***************************************************************************)
BetterAsk(price, best) == price < best

BetterBid(price, best) == price > best

\* lines 118-133, 454-469: one order of the enumeration against the best
\* prices found so far
ScanStep(best, order) ==
    LET best_bid_dict == best.best_bid_dict
        best_ask_dict == best.best_ask_dict
        security == order.item
        price == order.price
        asks == IF order.order_side # "SELL" THEN best_ask_dict
                ELSE IF ~DictHas(best_ask_dict, security)
                     THEN DictSet(best_ask_dict, security, price)
                ELSE IF BetterAsk(price, best_ask_dict.val[security])
                     THEN DictSet(best_ask_dict, security, price)
                ELSE best_ask_dict
        bids == IF order.order_side # "BUY" THEN best_bid_dict
                ELSE IF ~DictHas(best_bid_dict, security)
                     THEN DictSet(best_bid_dict, security, price)
                ELSE IF BetterBid(price, best_bid_dict.val[security])
                     THEN DictSet(best_bid_dict, security, price)
                ELSE best_bid_dict
    IN  [best_bid_dict |-> bids, best_ask_dict |-> asks]

RECURSIVE ScanOrders(_, _, _)
ScanOrders(orders, i, best) ==
    IF i > Len(orders) THEN best
    ELSE Only({ScanOrders(orders, i + 1, next) :
                   next \in {ScanStep(best, orders[i])}})

BestPrices(orders) ==
    ScanOrders(orders, 1, [best_bid_dict |-> EmptyDict, best_ask_dict |-> EmptyDict])

\* lines 472-481: min/max price for the securities with no live price
FillStep(best, security) ==
    LET bids == IF ~DictHas(best.best_bid_dict, security)
                THEN DictSet(best.best_bid_dict, security, min_price[security])
                ELSE best.best_bid_dict
        asks == IF ~DictHas(best.best_ask_dict, security)
                THEN DictSet(best.best_ask_dict, security, max_price[security])
                ELSE best.best_ask_dict
    IN  [best_bid_dict |-> bids, best_ask_dict |-> asks]

RECURSIVE FillMissing(_, _)
FillMissing(best, i) ==
    IF i > Len(Markets) THEN best
    ELSE Only({FillMissing(filled, i + 1) :
                   filled \in {FillStep(best, Markets[i])}})

MarketMakingPrices(orders) == FillMissing(BestPrices(orders), 1)

(***************************************************************************)
(* The part the two searches share: score, retain, validate, select        *)
(***************************************************************************)
\* Order.create_new() with price, order_side and ref set
NewOrder(security, side, price) ==
    [ref |-> security, order_side |-> side, price |-> price]

\* lines 172-174: market, order_type and units of a retained trade
Populate(trade) ==
    [ref |-> trade.ref, order_side |-> trade.order_side, price |-> trade.price,
     order_type |-> "LIMIT", units |-> 1]

ImprovesOrEqual(performance) == performance >= _current_performance[1]

\* lines 147, 159, 495, 507
Improves(performance) == performance > _current_performance[1]

\* lines 146-149, 158-161, 494-497, 506-509: one candidate scored and kept
\* when it improves; a later equal performance replaces the order kept
\* under that key
RetainStep(optimal_trades, cand) ==
    LET performance == get_potential_performance(<<cand>>)
    IN  IF Improves(performance)
        THEN DictSet(optimal_trades, performance, cand)
        ELSE optimal_trades

\* optimal_trades after the candidates from the i-th on.  The dict is bound
\* as a value at every step, so that it is computed once.
RECURSIVE Retain(_, _, _)
Retain(cands, i, optimal_trades) ==
    IF i > Len(cands) THEN optimal_trades
    ELSE Only({Retain(cands, i + 1, kept) :
                   kept \in {RetainStep(optimal_trades, cands[i])}})

\* lines 165, 513
InitialBestPerformance == 0

\* lines 168-182, 516-530
RECURSIVE SelectBest(_, _, _, _)
SelectBest(optimal_trades, i, best_performance, best_trade) ==
    IF i > Len(optimal_trades.keys) THEN best_trade
    ELSE LET performance == optimal_trades.keys[i]
             trade == Populate(optimal_trades.val[performance])
         IN  IF performance > best_performance /\ check_order_validity(trade)
             THEN SelectBest(optimal_trades, i + 1, performance, Some(trade))
             ELSE SelectBest(optimal_trades, i + 1, best_performance, best_trade)

\* lines 163-189, 511-537: the value returned and the trade stored
BestTrade(optimal_trades) ==
    IF Len(optimal_trades.keys) # 0
    THEN SelectBest(optimal_trades, 1, InitialBestPerformance, None)
    ELSE None

Returned(cands, best_trade) ==
    [optimal |-> best_trade = None, trade |-> best_trade, cands |-> cands]

SearchResult(cands) ==
    Only({Returned(c, best_trade) :
            c \in {cands},
            best_trade \in {BestTrade(kept) : kept \in {Retain(cands, 1, EmptyDict)}}})

(***************************************************************************)
(* AggressiveTradeSearch: is_portfolio_optimal                             *)
(***************************************************************************)
AggressiveBuys(asks) ==
    [i \in 1..Len(asks.keys) |->
        NewOrder(asks.keys[i], "BUY", asks.val[asks.keys[i]])]

AggressiveSells(bids) ==
    [i \in 1..Len(bids.keys) |->
        NewOrder(bids.keys[i], "SELL", bids.val[bids.keys[i]])]

AggressiveCandidates(orders) ==
    Only({AggressiveBuys(best.best_ask_dict) \o AggressiveSells(best.best_bid_dict) :
            best \in {BestPrices(orders)}})

is_portfolio_optimal(orders) == SearchResult(AggressiveCandidates(orders))

(***************************************************************************)
(* MarketMakingTradeSearch: _market_making_portfolio_optimal               *)
(***************************************************************************)
BuyAtBid(price, security) == price

\* line 490
MarketMakingBuyPrice(price, security) == price + price_tick[security]

\* line 502
MarketMakingSellPrice(price, security) == price - price_tick[security]

MarketMakingBuys(bids) ==
    [i \in 1..Len(bids.keys) |->
        NewOrder(bids.keys[i], "BUY",
                 MarketMakingBuyPrice(bids.val[bids.keys[i]], bids.keys[i]))]

MarketMakingSells(asks) ==
    [i \in 1..Len(asks.keys) |->
        NewOrder(asks.keys[i], "SELL",
                 MarketMakingSellPrice(asks.val[asks.keys[i]], asks.keys[i]))]

MarketMakingCandidates(orders) ==
    Only({MarketMakingBuys(best.best_bid_dict) \o MarketMakingSells(best.best_ask_dict) :
            best \in {MarketMakingPrices(orders)}})

market_making_portfolio_optimal(orders) ==
    SearchResult(MarketMakingCandidates(orders))

(***************************************************************************)
(* The venue and its client: orders, requests and order-book events        *)
(***************************************************************************)
LowQuote == 90

HighQuote == 110

\* prices the other participants quote: below and above the expected payoff
PoolPrices == {LowQuote, HighQuote}

\* open orders of the other participants
OtherOrders ==
    [id : {0}, item : Securities, order_side : {"BUY", "SELL"},
     price : PoolPrices, mine : {FALSE}]

RECURSIVE BooksOf(_, _)
BooksOf(pool, k) ==
    IF k = 0 THEN {{}}
    ELSE BooksOf(pool, k - 1) \cup {b \cup {o} : b \in BooksOf(pool, k - 1), o \in pool}

SearchBooks == BooksOf(OtherOrders, MaxBook)

\* lifecycle runs: the other participants quote the low price in the first
\* market (an ask the bot takes, or a bid it does not)
LifecycleBooks ==
    BooksOf({o \in OtherOrders : o.item = Markets[1] /\ o.price = LowQuote},
            MaxOthers)

\* the orders in which Order.current().items() can enumerate a set of orders
RECURSIVE Enumerations(_)
Enumerations(S) ==
    IF S = {} THEN {<<>>}
    ELSE UNION {{<<o>> \o rest : rest \in Enumerations(S \ {o})} : o \in S}

MyOrders(orders) == {o \in orders : o.mine}

\* the request send_order passes on for a new limit order
LimitRequest(trade, id) ==
    [id |-> id, item |-> trade.ref, order_side |-> trade.order_side,
     price |-> trade.price, order_type |-> trade.order_type, units |-> trade.units]

\* _cancel_order: a copy of the order with order_type CANCEL
cancel_order(order) ==
    [id |-> order.id, item |-> order.item, order_side |-> order.order_side,
     price |-> order.price, order_type |-> "CANCEL", units |-> 1]

\* the order a limit request becomes on the book
Resting(request) ==
    [id |-> request.id, item |-> request.item, order_side |-> request.order_side,
     price |-> request.price, mine |-> TRUE]

\* elements of an order-book event batch
PlainOther == [mine |-> FALSE, traded_order |-> None, id |-> 0]

OtherTrade == [mine |-> FALSE, traded_order |-> Some([mine |-> FALSE, id |-> 0]), id |-> 0]

PlainMine == [mine |-> TRUE, traded_order |-> None, id |-> 0]

\* the bot's order i, carrying the order it traded with
DirectFill(i) == [mine |-> TRUE, traded_order |-> Some([mine |-> FALSE, id |-> 0]), id |-> i]

\* a counter-order whose traded order is the bot's order i
CounterFill(i) == [mine |-> FALSE, traded_order |-> Some([mine |-> TRUE, id |-> i]), id |-> 0]

MaxBatch == 2

\* elements that report no trade of the bot
QuietElements == {PlainOther, OtherTrade, PlainMine}

BatchElements(orders) ==
    QuietElements
    \cup {DirectFill(o.id) : o \in MyOrders(orders)}
    \cup {CounterFill(o.id) : o \in MyOrders(orders)}

RECURSIVE SeqsUpTo(_, _)
SeqsUpTo(S, k) ==
    IF k = 0 THEN {<<>>}
    ELSE SeqsUpTo(S, k - 1)
         \cup {Append(q, x) : q \in {r \in SeqsUpTo(S, k - 1) : Len(r) = k - 1}, x \in S}

\* batches of at most MaxBatch elements: any element, after elements that
\* report no trade of the bot
Batches(orders) ==
    {Append(q, e) : q \in SeqsUpTo(QuietElements, MaxBatch - 1),
                    e \in BatchElements(orders)}

\* ids of the bot's orders a batch reports as traded
FilledIn(batch) ==
    {batch[i].id : i \in {j \in 1..Len(batch) :
                            batch[j].mine /\ batch[j].traded_order # None}}
    \cup {batch[i].traded_order[1].id :
            i \in {j \in 1..Len(batch) :
                     batch[j].traded_order # None /\ batch[j].traded_order[1].mine}}

(***************************************************************************)
(* Inputs                                                                  *)
(***************************************************************************)
\* payoff distributions of the two markets (market_info.description)
HedgedPayoffs == [s \in Securities |-> IF s = "A" THEN <<0, 200>> ELSE <<200, 0>>]

RisklessPayoffs == [s \in Securities |-> IF s = "A" THEN <<0, 200>> ELSE <<100, 100>>]

PayoffInputs == {HedgedPayoffs, RisklessPayoffs}

CashValues == {0, 100}

UnitValues == -1..1

AvailableValues == 0..1

\* what a holdings update carries: cash_available, units and units_available
HoldingsInputs ==
    [cash : CashValues, units : [Securities -> UnitValues],
     available : [Securities -> AvailableValues]]

\* holdings updates of the lifecycle runs: no position, and units to sell
\* in the first market only
LifecycleHoldings ==
    {h \in HoldingsInputs :
        /\ \A s \in Securities : h.units[s] = 0
        /\ \A s \in Securities \ {Markets[1]} : h.available[s] = 0}

(***************************************************************************)
(* OrderLifecycleController                                                *)
(***************************************************************************)
IDLE == ~_order_on_market

PENDING == _order_on_market

DirectTradeOnly(curr_order) == curr_order.mine /\ curr_order.traded_order # None

\* lines 226-227 and 247-248: is this element a trade of an order of the bot
IsOwnTrade(curr_order) ==
    \/ curr_order.mine /\ curr_order.traded_order # None
    \/ curr_order.traded_order # None /\ curr_order.traded_order[1].mine

RECURSIVE TradedInBatch(_, _)
TradedInBatch(orders, i) ==
    IF i > Len(orders) THEN FALSE
    ELSE IF IsOwnTrade(orders[i]) THEN TRUE
    ELSE TradedInBatch(orders, i + 1)

WaitReached == _current_wait_time >= MaxWaitTime

\* lines 267, 289, 343
WaitExceeded == _current_wait_time > MaxWaitTime

IlliquidAnyState == WaitExceeded

IlliquidWhenIdle == ~_order_on_market

\* lines 343-344
IlliquidMayTrade == WaitExceeded /\ ~_order_on_market

\* lines 268-270: one cancellation per own order in Order.current()
CancelRequests(current) ==
    LET mine == SelectSeq(current, LAMBDA o : o.mine)
    IN  [i \in 1..Len(mine) |-> cancel_order(mine[i])]

RequestSet(requests) == {requests[i] : i \in 1..Len(requests)}

\* a search reaches get_potential_performance before the first holdings
\* update has set cash, the payoff model and the baseline: TypeError
SearchRaises(cands) == _current_performance = None /\ Len(cands) > 0

\* send_order(optimal_trade); _order_on_market = True; _current_wait_time = 0
Submit(trade) ==
    /\ next_id <= MaxOrders
    /\ sent' = <<LimitRequest(trade, next_id)>>
    /\ inflight' = inflight \cup {LimitRequest(trade, next_id)}
    /\ next_id' = next_id + 1
    /\ _order_on_market' = TRUE
    /\ _current_wait_time' = 0

NothingSent ==
    /\ sent' = <<>>
    /\ UNCHANGED <<inflight, next_id>>

\* lines 291-297 and 346-352
MarketMaking(current) ==
    /\ search' = Some([by |-> "market_making_portfolio_optimal",
                        cands |-> MarketMakingCandidates(current)])
    /\ IF SearchRaises(MarketMakingCandidates(current))
       THEN /\ NothingSent
            /\ UNCHANGED <<_most_enhancing_trade, _order_on_market,
                           _current_wait_time>>
       ELSE \E result \in {market_making_portfolio_optimal(current)} :
                /\ _most_enhancing_trade' = result.trade
                /\ IF ~result.optimal
                   THEN Submit(result.trade[1])
                   ELSE /\ NothingSent
                        /\ UNCHANGED <<_order_on_market, _current_wait_time>>

Searched(current) ==
    Some([by |-> "is_portfolio_optimal", cands |-> AggressiveCandidates(current)])

received_orders(orders, current) ==
    IF _order_on_market
    THEN /\ UNCHANGED <<_most_enhancing_trade, next_id>>
         /\ search' = None
         /\ IF TradedInBatch(orders, 1)
            THEN /\ _order_on_market' = FALSE
                 /\ _current_wait_time' = 0
                 /\ sent' = <<>>
                 /\ UNCHANGED inflight
            ELSE IF WaitExceeded
            THEN /\ sent' = CancelRequests(current)
                 /\ inflight' = inflight \cup RequestSet(CancelRequests(current))
                 /\ _order_on_market' = FALSE
                 /\ _current_wait_time' = 0
            ELSE /\ sent' = <<>>
                 /\ UNCHANGED <<inflight, _order_on_market, _current_wait_time>>
    ELSE IF SearchRaises(AggressiveCandidates(current))
    THEN /\ search' = Searched(current)
         /\ NothingSent
         /\ UNCHANGED <<_most_enhancing_trade, _order_on_market,
                        _current_wait_time>>
    ELSE \E result \in {is_portfolio_optimal(current)} :
             IF ~result.optimal
             THEN /\ search' = Searched(current)
                  /\ _most_enhancing_trade' = result.trade
                  /\ Submit(result.trade[1])
             ELSE IF WaitExceeded
             THEN MarketMaking(current)
             ELSE /\ search' = Searched(current)
                  /\ _most_enhancing_trade' = result.trade
                  /\ NothingSent
                  /\ UNCHANGED <<_order_on_market, _current_wait_time>>

\* what a batch tells: whether the scan of received_orders finds a trade
\* of the bot in it, and which orders of the bot it reports as traded
Told(orders) == [traded |-> TradedInBatch(orders, 1), filled |-> FilledIn(orders)]

\* the client applies an order-book update and calls received_orders with
\* it (one batch stands for all the batches that tell the same)
ReceivedOrders ==
    \E others \in LifecycleBooks, told \in {Told(b) : b \in Batches(book)} :
        LET orders == CHOOSE b \in Batches(book) : Told(b) = told
            filled == told.filled
            updated == others \cup {o \in MyOrders(book) : o.id \notin filled}
        IN  \E current \in Enumerations(updated) :
                /\ book' = updated
                /\ event' = Some([filled |-> filled, pending |-> _order_on_market])
                /\ UNCHANGED <<checked, initialize_calls>>
                /\ received_orders(orders, current)
                /\ UNCHANGED <<_payoffs, _current_performance, portfolioVars,
                               _asset_expected_returns,
                               _asset_variance_covariance_matrix>>

AlwaysInitialize == TRUE

\* line 328
NotYetInitialized == _current_performance = None

\* the baseline of the first holdings update, kept by the later ones
FirstPerformance(holdings, er, cov) ==
    IF _current_performance = None
    THEN Performance(StateNum(_payoffs), holdings.cash, holdings.units, er, cov, <<>>)
    ELSE _current_performance[1]

\* line 332: get_potential_performance(list()) on the cash and holdings the
\* update has just stored
UpdatedPerformance(holdings, er, cov) ==
    Performance(StateNum(_payoffs), holdings.cash, holdings.units, er, cov, <<>>)

received_holdings(holdings) ==
    /\ _cash_holdings' = Some(holdings.cash)
    /\ _asset_holdings' = holdings.units
    /\ _short_asset_holdings' = holdings.available
    /\ IF NotYetInitialized
       THEN /\ initialize_calls < MaxInitializations
            /\ initialize_calls' = initialize_calls + 1
            /\ IF initialize_raises(_payoffs)
               THEN UNCHANGED <<_asset_expected_returns,
                                _asset_variance_covariance_matrix,
                                _current_performance>>
               ELSE /\ _asset_expected_returns' = Some(expected_return(_payoffs))
                    /\ _asset_variance_covariance_matrix' =
                           Some(variance_covariance_matrix(_payoffs))
                    /\ _current_performance' =
                           Some(UpdatedPerformance(holdings, expected_return(_payoffs),
                                    variance_covariance_matrix(_payoffs)))
       ELSE /\ UNCHANGED <<_asset_expected_returns,
                           _asset_variance_covariance_matrix, initialize_calls>>
            /\ _current_performance' =
                   Some(UpdatedPerformance(holdings, _asset_expected_returns[1],
                                           _asset_variance_covariance_matrix[1]))

\* the client delivers a holdings update
HoldingsUpdate(holdings) ==
    /\ received_holdings(holdings)
    /\ event' = None
    /\ UNCHANGED checked
    /\ sent' = <<>>
    /\ search' = None
    /\ UNCHANGED <<_payoffs, _most_enhancing_trade, _current_wait_time,
                   _order_on_market, book, inflight, next_id>>

ReceivedHoldings == \E holdings \in LifecycleHoldings : HoldingsUpdate(holdings)

\* the 1-second tick.  The counter is followed up to MaxTicks: the code only
\* compares it with _max_wait_time, so every value above MaxTicks reads alike
increment_current_wait_time ==
    /\ _current_wait_time' = IF _current_wait_time < MaxTicks
                             THEN _current_wait_time + 1
                             ELSE MaxTicks
    /\ event' = None
    /\ UNCHANGED <<checked, initialize_calls>>
    /\ sent' = <<>>
    /\ search' = None
    /\ UNCHANGED <<_payoffs, _current_performance, portfolioVars,
                   _asset_expected_returns, _asset_variance_covariance_matrix,
                   _most_enhancing_trade, _order_on_market, book, inflight,
                   next_id>>

\* the illiquid-check tick
illiquid_market_market_making ==
    /\ event' = None
    /\ UNCHANGED <<checked, initialize_calls>>
    /\ UNCHANGED <<_payoffs, _current_performance, portfolioVars,
                   _asset_expected_returns, _asset_variance_covariance_matrix,
                   book>>
    /\ IF IlliquidMayTrade
       THEN \E current \in Enumerations(book) : MarketMaking(current)
       ELSE /\ NothingSent
            /\ search' = None
            /\ UNCHANGED <<_most_enhancing_trade, _order_on_market,
                           _current_wait_time>>

IdleAfterOutcome(order) == FALSE

\* lines 191-202, 204-215: both handlers compute a text and call inform;
\* neither assigns _order_on_market
FlagAfterOutcome(order) == _order_on_market

\* the venue accepts a request: a limit order rests on the book, a
\* cancellation removes its order; order_accepted only informs the user
order_accepted ==
    \E request \in inflight :
        /\ inflight' = inflight \ {request}
        /\ book' = IF request.order_type = "LIMIT"
                   THEN book \cup {Resting(request)}
                   ELSE {o \in book : ~(o.mine /\ o.id = request.id)}
        /\ _order_on_market' = FlagAfterOutcome(request)
        /\ event' = None
        /\ UNCHANGED <<checked, initialize_calls>>
        /\ sent' = <<>>
        /\ search' = None
        /\ UNCHANGED <<_payoffs, _current_performance, portfolioVars,
                       _asset_expected_returns,
                       _asset_variance_covariance_matrix,
                       _most_enhancing_trade, _current_wait_time, next_id>>

\* the venue rejects a request; order_rejected only informs the user
order_rejected ==
    \E request \in inflight :
        /\ inflight' = inflight \ {request}
        /\ _order_on_market' = FlagAfterOutcome(request)
        /\ event' = None
        /\ UNCHANGED <<checked, initialize_calls>>
        /\ sent' = <<>>
        /\ search' = None
        /\ UNCHANGED <<_payoffs, _current_performance, portfolioVars,
                       _asset_expected_returns,
                       _asset_variance_covariance_matrix,
                       _most_enhancing_trade, _current_wait_time, book,
                       next_id>>

\* after __init__, initialised and pre_start_tasks
Init ==
    /\ _payoffs = HedgedPayoffs
    /\ _current_performance = None
    /\ _cash_holdings = None
    /\ _asset_holdings = <<>>
    /\ _short_asset_holdings = <<>>
    /\ _asset_expected_returns = None
    /\ _asset_variance_covariance_matrix = None
    /\ _most_enhancing_trade = None
    /\ _current_wait_time = 0
    /\ _order_on_market = FALSE
    /\ book \in LifecycleBooks
    /\ inflight = {}
    /\ next_id = 1
    /\ sent = <<>>
    /\ event = None
    /\ search = None
    /\ checked = None
    /\ initialize_calls = 0

Next ==
    \/ ReceivedOrders
    \/ ReceivedHoldings
    \/ increment_current_wait_time
    \/ illiquid_market_market_making
    \/ order_accepted
    \/ order_rejected

Spec == Init /\ [][Next]_vars

(***************************************************************************)
(* The searches on their own: every portfolio and order book of the        *)
(* bounds, after a holdings update has set the baseline                    *)
(***************************************************************************)
AfterHoldings(payoffs, holdings) ==
    /\ _payoffs = payoffs
    /\ _cash_holdings = Some(holdings.cash)
    /\ _asset_holdings = holdings.units
    /\ _short_asset_holdings = holdings.available
    /\ _asset_expected_returns = Some(expected_return(payoffs))
    /\ _asset_variance_covariance_matrix = Some(variance_covariance_matrix(payoffs))
    /\ _current_performance =
           Some(Performance(StateNum(payoffs), holdings.cash, holdings.units,
                            expected_return(payoffs),
                            variance_covariance_matrix(payoffs), <<>>))
    /\ _most_enhancing_trade = None
    /\ _current_wait_time = 0
    /\ _order_on_market = FALSE
    /\ inflight = {}
    /\ next_id = 1
    /\ sent = <<>>
    /\ event = None
    /\ search = None
    /\ checked = None
    /\ initialize_calls = 1

InitSearch ==
    \E payoffs \in PayoffInputs, holdings \in HoldingsInputs :
        /\ AfterHoldings(payoffs, holdings)
        /\ book \in SearchBooks

\* is_portfolio_optimal called on its own
AggressiveSearch ==
    \E current \in Enumerations(book) :
        /\ _most_enhancing_trade' = is_portfolio_optimal(current).trade
        /\ search' = Searched(current)
        /\ UNCHANGED <<_payoffs, _current_performance, portfolioVars,
                       _asset_expected_returns, _asset_variance_covariance_matrix,
                       _current_wait_time, _order_on_market, book, inflight,
                       next_id, sent, event, checked, initialize_calls>>

\* _market_making_portfolio_optimal called on its own
MarketMakingSearch ==
    \E current \in Enumerations(book) :
        /\ _most_enhancing_trade' = market_making_portfolio_optimal(current).trade
        /\ search' = Some([by |-> "market_making_portfolio_optimal",
                           cands |-> MarketMakingCandidates(current)])
        /\ UNCHANGED <<_payoffs, _current_performance, portfolioVars,
                       _asset_expected_returns, _asset_variance_covariance_matrix,
                       _current_wait_time, _order_on_market, book, inflight,
                       next_id, sent, event, checked, initialize_calls>>

NextSearch == AggressiveSearch \/ MarketMakingSearch

SpecSearch == InitSearch /\ [][NextSearch]_vars

(***************************************************************************)
(* The validator on its own: every portfolio and candidate of the bounds   *)
(***************************************************************************)
\* prices around the price bounds and around the cash values
CandidatePrices ==
    {MinPrice - 1, MinPrice, MaxPrice, MaxPrice + 1}
    \cup CashValues \cup {c + 1 : c \in CashValues}

CandidateInputs ==
    [ref : Securities, order_side : {"BUY", "SELL"}, price : CandidatePrices,
     order_type : {"LIMIT"}, units : 1..MaxUnits]

InitValidator ==
    \E payoffs \in PayoffInputs, holdings \in HoldingsInputs :
        /\ AfterHoldings(payoffs, holdings)
        /\ book = {}

\* _check_order_validity called on its own
CheckOrderValidity ==
    \E order \in CandidateInputs :
        /\ checked' = Some([order |-> order, valid |-> check_order_validity(order)])
        /\ UNCHANGED <<botVars, book, inflight, next_id, sent, event, search,
                       initialize_calls>>

NextValidator == CheckOrderValidity

SpecValidator == InitValidator /\ [][NextValidator]_vars

(***************************************************************************)
(* The evaluator on its own: every portfolio of the bounds and every list  *)
(* of at most MaxTrades hypothetical unit trades, between searches of the   *)
(* empty book                                                              *)
(***************************************************************************)
MaxTrades == 2

HypotheticalTrades ==
    [ref : Securities, order_side : {"BUY", "SELL"}, price : {LowQuote}]

TradeLists == SeqsUpTo(HypotheticalTrades, MaxTrades)

InitEvaluator ==
    \E payoffs \in PayoffInputs, holdings \in HoldingsInputs :
        /\ AfterHoldings(payoffs, holdings)
        /\ book = {}

\* get_potential_performance called on its own
GetPotentialPerformance ==
    \E orders \in TradeLists :
        /\ checked' = Some([orders |-> orders,
                            performance |-> get_potential_performance(orders)])
        /\ _asset_holdings' = HoldingsAfterEvaluation(orders)
        /\ UNCHANGED <<_payoffs, _current_performance, _cash_holdings,
                       _short_asset_holdings, _asset_expected_returns,
                       _asset_variance_covariance_matrix, _most_enhancing_trade,
                       _current_wait_time, _order_on_market, book, inflight,
                       next_id, sent, event, search, initialize_calls>>

NextEvaluator == GetPotentialPerformance \/ AggressiveSearch \/ MarketMakingSearch

SpecEvaluator == InitEvaluator /\ [][NextEvaluator]_vars

(***************************************************************************)
(* The payoff model on its own: every payoff description of the bounds,    *)
(* well formed or not, through the holdings updates of a session           *)
(***************************************************************************)
MaxStates == 3

\* payoffs of a state, in cents
PayoffValues == {100, 200, 300}

PayoffModelInputs == [Securities -> SeqsUpTo(PayoffValues, MaxStates)]

InitPayoff ==
    /\ _payoffs \in PayoffModelInputs
    /\ _current_performance = None
    /\ _cash_holdings = None
    /\ _asset_holdings = <<>>
    /\ _short_asset_holdings = <<>>
    /\ _asset_expected_returns = None
    /\ _asset_variance_covariance_matrix = None
    /\ _most_enhancing_trade = None
    /\ _current_wait_time = 0
    /\ _order_on_market = FALSE
    /\ book = {}
    /\ inflight = {}
    /\ next_id = 1
    /\ sent = <<>>
    /\ event = None
    /\ search = None
    /\ checked = None
    /\ initialize_calls = 0

NextPayoff == ReceivedHoldings

SpecPayoff == InitPayoff /\ [][NextPayoff]_vars

(***************************************************************************)
(* The lifecycle under fair periodic ticks (execute_periodically)          *)
(***************************************************************************)
SpecTicks ==
    /\ Init
    /\ [][Next]_vars
    /\ WF_vars(increment_current_wait_time)
    /\ WF_vars(illiquid_market_market_making)

\* holdings updates with long and short positions and nothing to sell
PositionHoldings ==
    {h \in HoldingsInputs : \A s \in Securities : h.available[s] = 0}

ReceivedPositions == \E holdings \in PositionHoldings : HoldingsUpdate(holdings)

\* the lifecycle with holdings updates that change the positions
NextPositions ==
    \/ ReceivedOrders
    \/ ReceivedPositions
    \/ increment_current_wait_time
    \/ illiquid_market_market_making
    \/ order_accepted
    \/ order_rejected

SpecPositions == Init /\ [][NextPositions]_vars

(***************************************************************************)
(* Properties                                                              *)
(***************************************************************************)
LimitsIn(requests) == SelectSeq(requests, LAMBDA r : r.order_type = "LIMIT")

CancelsIn(requests) == SelectSeq(requests, LAMBDA r : r.order_type = "CANCEL")

\* the order the controller believes is outstanding: the last one it created
Outstanding == next_id - 1

\* the bot's limit orders at the venue: resting on the book or on their way
OwnOutstanding ==
    {o.id : o \in MyOrders(book)}
    \cup {r.id : r \in {q \in inflight : q.order_type = "LIMIT"}}

Score(order) == get_potential_performance(<<order>>)

RealizedPerformance == get_potential_performance(<<>>)

\* C1: a limit order is submitted only from IDLE, at most one per handler
\* run, and every submission ends the run in PENDING with the wait counter 0.
C1_SubmitOnlyWhenIdle ==
    [][/\ Len(LimitsIn(sent')) <= 1
       /\ next_id' - next_id = Len(LimitsIn(sent'))
       /\ Len(LimitsIn(sent')) = 1 =>
              /\ ~_order_on_market
              /\ _order_on_market'
              /\ _current_wait_time' = 0]_vars

\* a submission made by the illiquid-check tick or the market-making path
C1_Witness ==
    /\ Len(LimitsIn(sent)) = 1
    /\ search # None
    /\ search[1].by = "market_making_portfolio_optimal"
    /\ _order_on_market
    /\ _current_wait_time = 0

\* C2: IDLE means no own limit order outstanding at the venue, PENDING means
\* exactly one, and never two own orders rest on the book together.
C2_FlagMatchesVenue ==
    /\ IDLE => Cardinality(OwnOutstanding) = 0
    /\ PENDING => Cardinality(OwnOutstanding) = 1
    /\ Cardinality(MyOrders(book)) <= 1

\* C3: a batch that reports the outstanding order as traded, received while
\* PENDING, ends in IDLE with the wait counter 0 and nothing sent.
C3_FillReturnsToIdle ==
    [][(/\ PENDING
        /\ event' # None
        /\ Outstanding \in event'[1].filled)
       => (/\ ~_order_on_market'
           /\ _current_wait_time' = 0
           /\ sent' = <<>>
           /\ inflight' = inflight)]_vars

C3_Witness ==
    /\ event # None
    /\ event[1].pending
    /\ Outstanding \in event[1].filled
    /\ IDLE
    /\ _current_wait_time = 0
    /\ sent = <<>>

\* C4: the timeout transition (PENDING, counter above the maximum wait, no
\* trade reported) sends exactly one cancellation, for the outstanding
\* order, and ends in IDLE with the wait counter 0.
C4_TimeoutCancelsOnce ==
    [][(/\ PENDING
        /\ WaitExceeded
        /\ event' # None
        /\ event'[1].filled = {})
       => (/\ Len(sent') = 1
           /\ sent'[1].order_type = "CANCEL"
           /\ sent'[1].id = Outstanding
           /\ ~_order_on_market'
           /\ _current_wait_time' = 0)]_vars

\* C5: under fair ticks alone a PENDING order is eventually timed out: the
\* controller returns to IDLE.
C5_TicksAloneTimeOut == PENDING ~> IDLE

\* C6: a trade returned by either search scores strictly above the realized
\* performance of the portfolio.
C6_ReturnedTradeImproves ==
    (search # None /\ _most_enhancing_trade # None)
    => Score(_most_enhancing_trade[1]) > RealizedPerformance

C6_Witness ==
    /\ search # None
    /\ search[1].by = "market_making_portfolio_optimal"
    /\ _most_enhancing_trade # None
    /\ _most_enhancing_trade[1].order_side = "SELL"

\* the validator's checks, stated on the portfolio
MeetsChecks(order) ==
    /\ order.price <= max_price[order.ref]
    /\ order.price >= min_price[order.ref]
    /\ order.order_side = "BUY" => order.price <= _cash_holdings[1]
    /\ order.order_side = "SELL" => order.units <= _short_asset_holdings[order.ref]

\* candidates of the last search that improve on the realized performance
\* and pass the checks
GoodCandidates ==
    {i \in 1..Len(search[1].cands) :
        /\ Score(search[1].cands[i]) > RealizedPerformance
        /\ MeetsChecks(Populate(search[1].cands[i]))}

\* C7: AggressiveTradeSearch returns an improving, accepted candidate of the
\* highest score, and reports "optimal" only when there is none.
C7_ReturnsBestImproving ==
    (search # None /\ search[1].by = "is_portfolio_optimal")
    => IF GoodCandidates = {}
       THEN _most_enhancing_trade = None
       ELSE /\ _most_enhancing_trade # None
            /\ \E i \in GoodCandidates :
                   _most_enhancing_trade[1] = Populate(search[1].cands[i])
            /\ \A i \in GoodCandidates :
                   Score(_most_enhancing_trade[1]) >= Score(search[1].cands[i])

\* C8: the validator accepts exactly the candidates that meet the four
\* checks, and validating changes no state of the bot.
C8_ValidatorExact ==
    [][checked' # checked =>
          /\ checked'[1].valid = MeetsChecks(checked'[1].order)
          /\ UNCHANGED <<botVars, book, inflight>>]_vars

\* a BUY priced above cash, rejected
C8_Witness ==
    /\ checked # None
    /\ checked[1].order.order_side = "BUY"
    /\ checked[1].order.price > _cash_holdings[1]
    /\ checked[1].order.price <= max_price[checked[1].order.ref]
    /\ ~checked[1].valid

\* C9: every limit order submitted is for one unit and meets the validator's
\* checks on the portfolio of the handler run that submits it.
C9_SubmittedOrdersValid ==
    \A i \in 1..Len(LimitsIn(sent)) :
        LET request == LimitsIn(sent)[i]
        IN  /\ request.units = 1
            /\ MeetsChecks([ref |-> request.item, order_side |-> request.order_side,
                            price |-> request.price, units |-> request.units])

\* a submission made although another candidate of the search improved
\* but failed the checks
C9_Witness ==
    /\ Len(LimitsIn(sent)) = 1
    /\ search # None
    /\ \E i \in 1..Len(search[1].cands) :
           /\ Score(search[1].cands[i]) > RealizedPerformance
           /\ ~MeetsChecks(Populate(search[1].cands[i]))

LiveBids(security) ==
    {o.price : o \in {b \in book : b.item = security /\ b.order_side = "BUY"}}

LiveAsks(security) ==
    {o.price : o \in {b \in book : b.item = security /\ b.order_side = "SELL"}}

BidUsed(security) ==
    IF LiveBids(security) = {} THEN min_price[security]
    ELSE CHOOSE p \in LiveBids(security) : \A q \in LiveBids(security) : q <= p

AskUsed(security) ==
    IF LiveAsks(security) = {} THEN max_price[security]
    ELSE CHOOSE p \in LiveAsks(security) : \A q \in LiveAsks(security) : q >= p

CandidatesFor(security, side) ==
    {i \in 1..Len(search[1].cands) :
        /\ search[1].cands[i].ref = security
        /\ search[1].cands[i].order_side = side}

\* C10: MarketMakingTradeSearch builds, per security, one BUY at the best
\* live bid (else the minimum price) plus a tick and one SELL at the best
\* live ask (else the maximum price) minus a tick.
C10_MarketMakingQuotes ==
    (search # None /\ search[1].by = "market_making_portfolio_optimal")
    => /\ Len(search[1].cands) = 2 * Cardinality(Securities)
       /\ \A security \in Securities :
              /\ \E i \in CandidatesFor(security, "BUY") :
                     /\ CandidatesFor(security, "BUY") = {i}
                     /\ search[1].cands[i].price
                            = BidUsed(security) + price_tick[security]
              /\ \E i \in CandidatesFor(security, "SELL") :
                     /\ CandidatesFor(security, "SELL") = {i}
                     /\ search[1].cands[i].price
                            = AskUsed(security) - price_tick[security]

\* one market with two live bids and no ask, the other with no order at all
C10_Witness ==
    /\ search # None
    /\ search[1].by = "market_making_portfolio_optimal"
    /\ Cardinality(LiveBids(Markets[1])) = 2
    /\ LiveAsks(Markets[1]) = {}
    /\ \A o \in book : o.item = Markets[1]

\* C11: get_potential_performance changes neither cash nor the holdings nor
\* the sellable holdings, and on the empty list it returns the realized
\* performance of the portfolio, whatever was evaluated or searched before.
C11_EvaluatorPure ==
    [][checked' # checked =>
          /\ UNCHANGED portfolioVars
          /\ checked'[1].orders = <<>> =>
                 checked'[1].performance = _current_performance[1]]_vars

\* the empty list evaluated where a search has stored a trade
C11_Witness ==
    /\ checked # None
    /\ checked[1].orders = <<>>
    /\ checked[1].performance = _current_performance[1]
    /\ search # None
    /\ _most_enhancing_trade # None

\* payoff descriptions with the same, nonzero number of states everywhere
EqualLengths ==
    /\ \A s1, s2 \in Securities : Len(_payoffs[s1]) = Len(_payoffs[s2])
    /\ \A s \in Securities : Len(_payoffs[s]) > 0

\* C12: for payoff sequences of equal length the first holdings update
\* computes a matrix with an entry for every ordered pair of securities,
\* and the entry of (a, b) equals the entry of (b, a).
C12_MatrixSymmetric ==
    /\ (EqualLengths /\ initialize_calls > 0)
           => _asset_variance_covariance_matrix # None
    /\ _asset_variance_covariance_matrix # None =>
          /\ DOMAIN _asset_variance_covariance_matrix[1] = Securities \X Securities
          /\ \A a, b \in Securities :
                 _asset_variance_covariance_matrix[1][<<a, b>>]
                     = _asset_variance_covariance_matrix[1][<<b, a>>]

\* two securities of different variances and a nonzero covariance
C12_Witness ==
    /\ _asset_variance_covariance_matrix # None
    /\ _asset_variance_covariance_matrix[1][<<"A", "A">>]
           # _asset_variance_covariance_matrix[1][<<"B", "B">>]
    /\ _asset_variance_covariance_matrix[1][<<"A", "B">>] # 0

\* C13: _initialize_asset_properties runs once, in the first holdings
\* update, and no later step of any handler changes the expected returns or
\* the variance-covariance matrix.
C13_InitializedOnce ==
    [][/\ initialize_calls' <= 1
       /\ initialize_calls' # initialize_calls => _cash_holdings = None
       /\ _asset_expected_returns # None =>
              UNCHANGED <<_asset_expected_returns,
                          _asset_variance_covariance_matrix>>
       /\ (_asset_expected_returns' # None)
              = (initialize_calls' = 1)]_vars

\* a holdings update after the first one, with an order already submitted
C13_Witness ==
    /\ initialize_calls = 1
    /\ _asset_expected_returns # None
    /\ _asset_variance_covariance_matrix # None
    /\ next_id > 1
    /\ _cash_holdings = Some(0)
    /\ _current_wait_time > 0

\* a step in which the venue answers a request: order_accepted or
\* order_rejected runs
OutcomeStep == inflight' # inflight /\ inflight' \subseteq inflight

PayoffSum(s) == SumOver(DOMAIN _payoffs[s], _payoffs[s])

ProductSum(s1, s2) ==
    SumOver(DOMAIN _payoffs[s1],
            [state \in DOMAIN _payoffs[s1] |->
                _payoffs[s1][state] * _payoffs[s2][state]])

ScenarioA == \A s \in Securities : _payoffs[s] = <<100, 200, 300>>

\* C15: the expected return of s is mean(payoff[s]) / 100 and the entry of
\* (s1, s2) is the mean over the states of the product of the two dollar
\* deviations, that is E[xy] - E[x]E[y]; for payoffs 100, 200, 300 in both
\* markets every expected return is 2 and every entry is 2/3.  (Expected
\* returns are numerators over 100 * n, entries over 10^4 * n^3.)
C15_PayoffModelValues ==
    _asset_expected_returns # None =>
        LET n == StateNum(_payoffs)
            er == _asset_expected_returns[1]
            cov == _asset_variance_covariance_matrix[1]
        IN  /\ \A s \in Securities : er[s] = PayoffSum(s)
            /\ \A s1, s2 \in Securities :
                   cov[<<s1, s2>>]
                       = n * n * ProductSum(s1, s2) - n * PayoffSum(s1) * PayoffSum(s2)
            /\ ScenarioA =>
                   /\ \A s \in Securities : er[s] = 2 * (CentsPerDollar * n)
                   /\ \A k \in Securities \X Securities :
                          3 * cov[k] = 2 * (CentsPerDollar * CentsPerDollar * n * n * n)

C15_Witness ==
    /\ ScenarioA
    /\ _asset_expected_returns # None
    /\ _asset_variance_covariance_matrix # None
    /\ _asset_variance_covariance_matrix[1][<<"A", "B">>] = 180000

UnequalLengths ==
    \E s1, s2 \in Securities : Len(_payoffs[s1]) # Len(_payoffs[s2])

\* C16: with payoff lists of different lengths the initialisation fails in
\* the first holdings update, whichever list is longer, and neither the
\* expected returns nor the matrix (nor a baseline) are ever published.
C16_MalformedPayoffsFail ==
    UnequalLengths =>
        /\ _asset_expected_returns = None
        /\ _asset_variance_covariance_matrix = None
        /\ _current_performance = None
        /\ _cash_holdings # None => initialize_calls > 0

\* the second market has more states than the first: the entry of the pair
\* (first, second) is computed, the pair (second, first) raises
C16_Witness ==
    /\ Len(_payoffs[Markets[1]]) = 1
    /\ Len(_payoffs[Markets[2]]) = 2
    /\ _cash_holdings # None
    /\ initialize_calls = 2
    /\ _asset_variance_covariance_matrix = None

\* the step ran _market_making_portfolio_optimal
MarketMakingRan ==
    search' # None /\ search'[1].by = "market_making_portfolio_optimal"

\* C17: the market-making search runs, from received_orders and from the
\* illiquid-check tick, only in IDLE with the wait counter strictly above the
\* maximum wait; when it yields a trade the run submits it and ends in
\* PENDING with the counter 0, and otherwise it submits nothing.
C17_MarketMakingOnlyAfterWait ==
    [][MarketMakingRan =>
          /\ ~_order_on_market
          /\ _current_wait_time > MaxWaitTime
          /\ IF _current_performance # None /\ _most_enhancing_trade' # None
             THEN /\ Len(LimitsIn(sent')) = 1
                  /\ sent'[1].item = _most_enhancing_trade'[1].ref
                  /\ sent'[1].price = _most_enhancing_trade'[1].price
                  /\ _order_on_market'
                  /\ _current_wait_time' = 0
             ELSE /\ sent' = <<>>
                  /\ UNCHANGED <<_order_on_market, _current_wait_time>>]_vars

\* a market-making order submitted by received_orders
C17_Witness ==
    /\ search # None
    /\ search[1].by = "market_making_portfolio_optimal"
    /\ event # None
    /\ Len(LimitsIn(sent)) = 1
    /\ _order_on_market
    /\ _current_wait_time = 0

\* C18: the controller leaves PENDING only in a received_orders run whose
\* batch reports the outstanding order as traded, or in one that takes the
\* timeout branch (no trade of the bot reported, counter above the maximum
\* wait); a trade that does not involve the outstanding order never moves
\* it from PENDING to IDLE.
C18_LeavesPendingByFillOrTimeout ==
    [][(PENDING /\ ~_order_on_market') =>
          /\ event' # None
          /\ \/ Outstanding \in event'[1].filled
             \/ event'[1].filled = {} /\ _current_wait_time > MaxWaitTime]_vars

\* a step that changes cash, the holdings, the sellable holdings or the
\* baseline
PortfolioStep ==
    \/ portfolioVars' # portfolioVars
    \/ _current_performance' # _current_performance

\* C19: once a holdings update has arrived, _current_performance is
\* get_potential_performance([]) on the current cash and holdings, and only
\* a holdings update changes cash, holdings, sellable holdings or the
\* baseline.
C19_BaselineCurrent ==
    /\ [](_cash_holdings # None =>
            /\ _current_performance # None
            /\ _current_performance[1] = RealizedPerformance)
    /\ [][PortfolioStep => ReceivedPositions]_vars

\* a later holdings update changed the positions while an order was
\* outstanding, and an order-book event has been handled since
C19_Witness ==
    /\ _current_performance # None
    /\ _cash_holdings = Some(0)
    /\ _asset_holdings[Markets[1]] = 1
    /\ _asset_holdings[Markets[2]] = -1
    /\ next_id > 1
    /\ event # None
    /\ _current_performance[1] = RealizedPerformance

\* what a tick may not touch: everything of the bot but the wait counter,
\* and the venue
TickFrame ==
    <<_payoffs, _current_performance, portfolioVars, _asset_expected_returns,
      _asset_variance_covariance_matrix, _most_enhancing_trade,
      _order_on_market, book, inflight, next_id>>

\* C20: a 1-second tick adds exactly 1 to the wait counter (followed up to
\* MaxTicks) and changes nothing else and sends nothing, and no other step
\* moves the counter to a value other than 0; the illiquid-check tick
\* changes nothing and sends nothing when the controller is PENDING or the
\* counter does not exceed the maximum wait, and outside received_orders a
\* search, a submission or a change of the flag, the stored trade or the
\* counter's reset happens only from IDLE with the counter above it.
C20_TicksOnlyCount ==
    [][/\ (_current_wait_time < MaxTicks /\ increment_current_wait_time) =>
              /\ _current_wait_time' = _current_wait_time + 1
              /\ UNCHANGED TickFrame
              /\ sent' = <<>>
       /\ (_current_wait_time' # _current_wait_time /\ _current_wait_time' # 0) =>
              /\ _current_wait_time' = _current_wait_time + 1
              /\ UNCHANGED TickFrame
              /\ sent' = <<>>
       /\ ((PENDING \/ _current_wait_time <= MaxWaitTime)
              /\ illiquid_market_market_making) =>
              /\ UNCHANGED <<TickFrame, _current_wait_time>>
              /\ sent' = <<>>
       /\ (/\ event' = None
           /\ \/ search' # None
              \/ Len(LimitsIn(sent')) > 0
              \/ _order_on_market' # _order_on_market
              \/ _most_enhancing_trade' # _most_enhancing_trade
              \/ _current_wait_time' < _current_wait_time) =>
              /\ IDLE
              /\ _current_wait_time > MaxWaitTime]_vars

\* ticks have passed while an accepted order waits: the counter is above
\* the maximum wait, the controller still PENDING, nothing sent
C20_Witness ==
    /\ PENDING
    /\ _current_wait_time = MaxWaitTime + 1
    /\ \E o \in book : o.mine
    /\ inflight = {}
    /\ sent = <<>>
    /\ event = None

====
